---- MODULE Spec2Model ----
(***************************************************************************)
(* grivy: the Trivy tool wrappers (tools/trivy_tools.py) and the report    *)
(* summarizer (cli/output_handler.py).                                     *)
(*                                                                         *)
(*   SpecSum  summarize_report applied to bounded report documents.        *)
(*   Spec     one scan tool call: command construction, _stream_run with   *)
(*            its child process and wall clock, _summarize of the report.  *)
(***************************************************************************)
EXTENDS Integers, Sequences, FiniteSets, TLC

VARIABLES
    document,      \* SpecSum: the parsed report handed to summarize_report
    sum,           \* SpecSum: locals and result of the last summarize_report call
    pc,            \* Spec: position of the tool call
    args,          \* Spec: the arguments of the tool call
    cmd,           \* Spec: the command list handed to _stream_run
    report_path,   \* Spec: the path given to --output and to _summarize
    exe,           \* Spec: TRUE when a trivy executable is on PATH
    file,          \* Spec: content of the file at report_path
    file0,         \* Spec: content of that file when the tool was called
    proc,          \* Spec: the child process (Popen object and the OS process)
    clock,         \* Spec: wall clock, in ticks
    run,           \* Spec: locals of _stream_run (start, wait deadline, ...)
    exit_code,     \* Spec: what _stream_run returned
    result         \* Spec: what the tool call returned or raised

vars == <<document, sum, pc, args, cmd, report_path, exe, file, file0, proc,
          clock, run, exit_code, result>>

sumVars == <<document, sum>>

scanVars == <<pc, args, cmd, report_path, exe, file, file0, proc, clock, run,
              exit_code, result>>

(***************************************************************************)
(* Python values.                                                          *)
(***************************************************************************)
\* Python's None (never one of the strings the model feeds in).
None == "<None>"

\* dict.get(key): the value, or None when the key is absent.
Get(d, k) == IF k \in DOMAIN d THEN d[k] ELSE None

\* Truthiness of a str-or-None value: None and "" are falsy.
Truthy(v) == v # None /\ v # ""

\* a or b
Or(a, b) == IF Truthy(a) THEN a ELSE b

\* str.upper() on the severity spellings the model uses.
Upper(s) ==
    CASE s = "critical" -> "CRITICAL"
      [] s = "Critical" -> "CRITICAL"
      [] s = "high"     -> "HIGH"
      [] s = "High"     -> "HIGH"
      [] s = "medium"   -> "MEDIUM"
      [] s = "low"      -> "LOW"
      [] s = "unknown"  -> "UNKNOWN"
      [] s = "bogus"    -> "BOGUS"
      [] OTHER          -> s

Min(a, b) == IF a <= b THEN a ELSE b

Max(a, b) == IF a >= b THEN a ELSE b

(***************************************************************************)
(* cli/output_handler.py                                                   *)
(***************************************************************************)
SEVERITY_ORDER == <<"CRITICAL", "HIGH", "MEDIUM", "LOW", "UNKNOWN">>

\* d.get(key, []) or [], and d.get(key) or []
ListOr(entry, k) == IF k \in DOMAIN entry THEN entry[k] ELSE <<>>

\* The items appended for one entry's "Vulnerabilities" (lines 19-28).
VulnItems(entry) ==
    LET vs == ListOr(entry, "Vulnerabilities")
    IN  [j \in 1..Len(vs) |->
            [id       |-> Get(vs[j], "VulnerabilityID"),
             title    |-> Or(Get(vs[j], "Title"), Get(vs[j], "Description")),
             severity |-> Get(vs[j], "Severity"),
             pkg      |-> Get(vs[j], "PkgName"),
             type     |-> "vuln"]]

\* The items appended for one entry's "Misconfigurations" (lines 29-38).
MisItems(entry) ==
    LET ms == ListOr(entry, "Misconfigurations")
    IN  [j \in 1..Len(ms) |->
            [id       |-> Get(ms[j], "ID"),
             title    |-> Or(Get(ms[j], "Title"), Get(ms[j], "Description")),
             severity |-> Get(ms[j], "Severity"),
             pkg      |-> Get(ms[j], "Target"),
             type     |-> "misconfig"]]

RECURSIVE _collect_items(_)
_collect_items(results) ==
    IF results = <<>> THEN <<>>
    ELSE VulnItems(Head(results)) \o MisItems(Head(results))
            \o _collect_items(Tail(results))

\* list.index(x): the first position of x (0-based), or -1 for ValueError.
RECURSIVE IndexFrom(_, _, _)
IndexFrom(seq, x, i) ==
    IF i > Len(seq) THEN -1
    ELSE IF seq[i] = x THEN i - 1
    ELSE IndexFrom(seq, x, i + 1)

_severity_rank(sev) ==
    LET i == IndexFrom(SEVERITY_ORDER, Upper(sev), 1)
    IN  IF i < 0 THEN Len(SEVERITY_ORDER) ELSE i

\* The sort key of summarize_report's sorted(): lambda x: ... (line 59).
SortKey(item) == _severity_rank(Or(item.severity, "ZZZ"))

\* Mutant of InsertStable: x goes in front of the elements of equal key.
RECURSIVE InsertBeforeEqual(_, _)
InsertBeforeEqual(s, x) ==
    IF s = <<>> THEN <<x>>
    ELSE IF SortKey(Head(s)) < SortKey(x)
         THEN <<Head(s)>> \o InsertBeforeEqual(Tail(s), x)
         ELSE <<x>> \o s

\* Insert x into the key-sorted list s behind every element whose key is not
\* greater than x's: the place a stable sort gives an element that comes later.
RECURSIVE InsertStable(_, _)
InsertStable(s, x) ==
    IF s = <<>> THEN <<x>>
    ELSE IF SortKey(Head(s)) <= SortKey(x)
         THEN <<Head(s)>> \o InsertStable(Tail(s), x)
         ELSE <<x>> \o s

\* sorted(items, key=SortKey): Python's sorted is stable.
RECURSIVE SortedFrom(_, _)
SortedFrom(acc, rest) ==
    IF rest = <<>> THEN acc
    ELSE SortedFrom(InsertStable(acc, Head(rest)), Tail(rest))

Sorted(items) == SortedFrom(<<>>, items)

\* Mutant of Prefix: one element too many.
PrefixOneMore(seq, k) == SubSeq(seq, 1, Min(k + 1, Len(seq)))

\* seq[:k] for k >= 0.
Prefix(seq, k) == SubSeq(seq, 1, Min(k, Len(seq)))

\* Mutant of CountSeverity: the comparison without .upper().
RECURSIVE CountSeverityExact(_, _)
CountSeverityExact(items, label) ==
    IF items = <<>> THEN 0
    ELSE (IF Or(Head(items).severity, "") = label THEN 1 ELSE 0)
            + CountSeverityExact(Tail(items), label)

\* sum(1 for i in items if (i.get("severity") or "").upper() == label)
RECURSIVE CountSeverity(_, _)
CountSeverity(items, label) ==
    IF items = <<>> THEN 0
    ELSE (IF Upper(Or(Head(items).severity, "")) = label THEN 1 ELSE 0)
            + CountSeverity(Tail(items), label)

\* str(v) inside an f-string.
Str(v) == IF v = None THEN "None" ELSE v

\* "; ".join(f"[{severity}] {id} - {title}" for t in top_brief if t.get("id"))
RECURSIVE JoinTop(_, _)
JoinTop(top, first) ==
    IF top = <<>> THEN ""
    ELSE IF ~Truthy(Head(top).id) THEN JoinTop(Tail(top), first)
    ELSE (IF first THEN "" ELSE "; ")
            \o "[" \o Str(Head(top).severity) \o "] " \o Str(Head(top).id)
            \o " - " \o Str(Head(top).title)
            \o JoinTop(Tail(top), FALSE)

\* The locals and the returned dict of summarize_report(data, top_k), for a
\* parsed report data. The summary text is the source's, in English.
summarize_report(data, top_k) ==
    LET results      == ListOr(data, "Results")
        items        == _collect_items(results)
        high         == CountSeverity(items, "HIGH")
        critical     == CountSeverity(items, "CRITICAL")
        sorted_items == Sorted(items)
        top_brief    == Prefix(sorted_items, top_k)
    IN  [items          |-> items,
         sorted_items   |-> sorted_items,
         summary_text   |-> "Scan finished. High: " \o ToString(high)
                                \o ", Critical: " \o ToString(critical)
                                \o ". Top " \o ToString(Len(top_brief))
                                \o " risk examples: " \o JoinTop(top_brief, TRUE),
         high           |-> high,
         critical       |-> critical,
         top            |-> top_brief,
         total_findings |-> Len(items)]

(***************************************************************************)
(* Report documents fed to the summarizer: every report that a sequence of *)
(* at most MaxTokens writer steps produces, a step opening a result entry  *)
(* or adding one vulnerability or misconfiguration to the last entry.      *)
(* Trivy omits empty lists, and a finding's Severity may be absent.        *)
(***************************************************************************)
MaxTokens == 3

MaxTopK == 3

SevSpellings == {"CRITICAL", "high", "LOW", "UNKNOWN", "bogus", "", None}

Tokens == {<<"E", None>>} \cup ({"V", "M"} \X SevSpellings)

TokenSeqs == UNION {[1..n -> Tokens] : n \in 0..MaxTokens}

WithSeverity(f, s) == IF s = None THEN f ELSE f @@ ("Severity" :> s)

Finding(kind, s, i) ==
    IF kind = "V"
    THEN WithSeverity([VulnerabilityID |-> "CVE-" \o ToString(i),
                       Title |-> "t" \o ToString(i), PkgName |-> "pkg"], s)
    ELSE WithSeverity([ID |-> "MIS-" \o ToString(i),
                       Title |-> "m" \o ToString(i), Target |-> "Dockerfile"], s)

AddFinding(entry, kind, f) ==
    LET key == IF kind = "V" THEN "Vulnerabilities" ELSE "Misconfigurations"
    IN  IF key \in DOMAIN entry
        THEN [entry EXCEPT ![key] = Append(@, f)]
        ELSE entry @@ (key :> <<f>>)

RECURSIVE BuildResults(_, _, _)
BuildResults(results, toks, i) ==
    IF i > Len(toks) THEN results
    ELSE LET kind == toks[i][1]
             open == IF results = <<>> THEN <<[Target |-> "target"]>> ELSE results
             n    == Len(open)
         IN  IF kind = "E"
             THEN BuildResults(Append(results, [Target |-> "target"]), toks, i + 1)
             ELSE BuildResults(
                    [open EXCEPT ![n] = AddFinding(@, kind, Finding(kind, toks[i][2], i))],
                    toks, i + 1)

Documents ==
    {[SchemaVersion |-> 2]}
        \cup {[SchemaVersion |-> 2, Results |-> BuildResults(<<>>, t, 1)] : t \in TokenSeqs}

(***************************************************************************)
(* SpecSum: summarize_report on a report document.                         *)
(***************************************************************************)
IdleScan ==
    /\ pc = "off" /\ args = None /\ cmd = <<>> /\ report_path = None
    /\ exe = FALSE /\ file = None /\ file0 = None /\ proc = None
    /\ clock = 0 /\ run = None /\ exit_code = None /\ result = None

InitSum ==
    /\ document \in Documents
    /\ sum = [called |-> FALSE]
    /\ IdleScan

Summarize(k) ==
    /\ sum' = [called |-> TRUE, top_k |-> k, out |-> summarize_report(document, k)]
    /\ UNCHANGED <<document, scanVars>>

NextSum == \E k \in 0..MaxTopK : Summarize(k)

SpecSum == InitSum /\ [][NextSum]_vars

(***************************************************************************)
(* The summarizer's claims, stated on the raw report document.             *)
(***************************************************************************)
DocResults == ListOr(document, "Results")

\* The findings of the document: <<entry, list, index>>.
Positions ==
    {<<e, k, j>> \in (1..Len(DocResults)) \X {"Vulnerabilities", "Misconfigurations"}
                        \X (1..MaxTokens) :
        j <= Len(ListOr(DocResults[e], k))}

Raw(p) == DocResults[p[1]][p[2]][p[3]]

RawId(p) == IF p[2] = "Vulnerabilities" THEN Raw(p).VulnerabilityID ELSE Raw(p).ID

\* Document order, vulnerabilities before misconfigurations within an entry.
Before(p, q) ==
    \/ p[1] < q[1]
    \/ p[1] = q[1] /\ p[2] = "Vulnerabilities" /\ q[2] = "Misconfigurations"
    \/ p[1] = q[1] /\ p[2] = q[2] /\ p[3] < q[3]

SameIgnoringCase(sev, label) == sev # None /\ Upper(sev) = label

\* The severity rank the specification states.
ClaimRank(sev) ==
    CASE SameIgnoringCase(sev, "CRITICAL") -> 0
      [] SameIgnoringCase(sev, "HIGH")     -> 1
      [] SameIgnoringCase(sev, "MEDIUM")   -> 2
      [] SameIgnoringCase(sev, "LOW")      -> 3
      [] SameIgnoringCase(sev, "UNKNOWN")  -> 4
      [] OTHER                             -> 5

PosOf(item) == CHOOSE p \in Positions : RawId(p) = item.id

\* C6: the ranked list is the flattened findings, each once, with ranks
\* non-decreasing (CRITICAL < HIGH < MEDIUM < LOW < UNKNOWN < anything else,
\* ignoring case) and equal-rank findings in their flattening order.
C6_RankedIsStableSort ==
    sum.called =>
        LET r == sum.out.sorted_items
        IN  /\ Len(r) = Cardinality(Positions)
            /\ {r[k].id : k \in 1..Len(r)} = {RawId(p) : p \in Positions}
            /\ \A k \in 1..Len(r) :
                    /\ r[k].severity = Get(Raw(PosOf(r[k])), "Severity")
                    /\ r[k].type = IF PosOf(r[k])[2] = "Vulnerabilities"
                                   THEN "vuln" ELSE "misconfig"
            /\ \A k, l \in 1..Len(r) :
                    k < l =>
                        /\ ClaimRank(r[k].severity) <= ClaimRank(r[l].severity)
                        /\ ClaimRank(r[k].severity) = ClaimRank(r[l].severity)
                                => Before(PosOf(r[k]), PosOf(r[l]))

\* A summarized report where sorting moved a finding forward and two findings
\* of equal rank (one of them a misconfiguration) kept their order.
C6_Witness ==
    /\ sum.called
    /\ Len(sum.out.sorted_items) = 3
    /\ sum.out.sorted_items # sum.out.items
    /\ \E k \in 1..2 :
            /\ SortKey(sum.out.sorted_items[k]) = SortKey(sum.out.sorted_items[k + 1])
            /\ sum.out.sorted_items[k].severity # sum.out.sorted_items[k + 1].severity
            /\ sum.out.sorted_items[k + 1].type = "misconfig"

\* C7: total_findings is the number of flattened findings whatever top_k is,
\* top is the first min(top_k, total) entries of the ranked list, and a report
\* without result entries gives zero counts and an empty top.
C7_TotalAndTopK ==
    sum.called =>
        LET n == Cardinality(Positions)
            m == IF sum.top_k <= n THEN sum.top_k ELSE n
        IN  /\ sum.out.total_findings = n
            /\ Len(sum.out.top) = m
            /\ \A k \in 1..m : sum.out.top[k] = sum.out.sorted_items[k]
            /\ DocResults = <<>> =>
                    /\ sum.out.high = 0 /\ sum.out.critical = 0
                    /\ sum.out.top = <<>> /\ sum.out.total_findings = 0

\* A summary truncated to fewer findings than the report holds.
C7_Witness ==
    /\ sum.called
    /\ sum.top_k = 2
    /\ sum.out.total_findings = 3
    /\ Len(sum.out.top) = 2

\* C8: critical and high count the findings of the whole document whose
\* severity is CRITICAL, resp. HIGH, ignoring case; a missing, empty or
\* unrecognized severity counts in neither.
C8_Counts ==
    sum.called =>
        /\ sum.out.critical =
                Cardinality({p \in Positions :
                                SameIgnoringCase(Get(Raw(p), "Severity"), "CRITICAL")})
        /\ sum.out.high =
                Cardinality({p \in Positions :
                                SameIgnoringCase(Get(Raw(p), "Severity"), "HIGH")})
        /\ sum.out.critical + sum.out.high <= sum.out.total_findings

\* A lower-case "high" is counted, a finding without severity is not, and the
\* counted finding lies outside the top list.
C8_Witness ==
    /\ sum.called
    /\ sum.top_k = 1
    /\ sum.out.high = 1
    /\ sum.out.critical = 1
    /\ sum.out.total_findings = 3
    /\ \E p \in Positions : "Severity" \notin DOMAIN Raw(p)
    /\ \E p \in Positions : Get(Raw(p), "Severity") = "high"

(***************************************************************************)
(* tools/trivy_tools.py: the scan tools.                                   *)
(***************************************************************************)
\* The wall clock advances in ticks; time.time() is a float, so a second has
\* more than one tick.
TicksPerSecond == 2

MaxClock == 6

MaxTimeout == 2

\* Lines the pipe holds before the reader takes them.
MaxBuffered == 1

Kinds == {"image", "fs", "repo", "sbom"}

TargetOf(kind) ==
    CASE kind = "image" -> "alpine:3.19"
      [] kind = "fs"    -> "./src"
      [] kind = "repo"  -> "https://github.com/example/repo"
      [] kind = "sbom"  -> "sbom.json"

Severities == {"HIGH,CRITICAL", "LOW"}

Formats == {"json", "table", "sarif", "xml"}

OutputPaths == {None, "", "out/scan.json"}

\* _BaseScanInput.validate_format: TRUE when v passes, FALSE for ValueError.
\* No tool uses the input classes: @tool derives each tool's schema from the
\* function signature, where format is a plain str.
validate_format(v) == v \in {"json", "table", "sarif"}

\* time.strftime("%Y%m%d-%H%M%S") at the call.
_timestamp == "20240101-120000"

_build_output_path(prefix, user_defined) ==
    IF Truthy(user_defined) THEN user_defined
    ELSE "data/" \o prefix \o "-" \o _timestamp \o ".json"

\* The command list of trivy_image_scan, trivy_fs_scan and trivy_repo_scan.
PositionalCmd(sub, a, path) ==
    <<"trivy", sub, "--severity", a.severity, "--format", a.format, "--output", path>>
        \o (IF a.ignore_unfixed THEN <<"--ignore-unfixed">> ELSE <<>>)
        \o <<a.target>>

\* Mutant of SbomCmd: the target also appended, as in the other three tools.
SbomCmdTrailingTarget(a, path) ==
    <<"trivy", "sbom", "--input", a.target, "--severity", a.severity,
      "--format", a.format, "--output", path>>
        \o (IF a.ignore_unfixed THEN <<"--ignore-unfixed">> ELSE <<>>)
        \o <<a.target>>

\* The command list of trivy_sbom_scan.
SbomCmd(a, path) ==
    <<"trivy", "sbom", "--input", a.target, "--severity", a.severity,
      "--format", a.format, "--output", path>>
        \o (IF a.ignore_unfixed THEN <<"--ignore-unfixed">> ELSE <<>>)

BuildCmd(a, path) ==
    IF a.kind = "sbom" THEN SbomCmd(a, path) ELSE PositionalCmd(a.kind, a, path)

(***************************************************************************)
(* The report file.                                                        *)
(***************************************************************************)
Missing == [kind |-> "missing"]

\* A file that is no JSON document: a table report, a truncated JSON report.
NotJson == [kind |-> "text"]

Json(doc) == [kind |-> "json", data |-> doc]

ReportWithFindings ==
    [SchemaVersion |-> 2,
     Results |-> <<[Target |-> "alpine",
                    Vulnerabilities |-> <<[VulnerabilityID |-> "CVE-2024-1",
                                           Severity |-> "CRITICAL", Title |-> "t",
                                           PkgName |-> "openssl"]>>,
                    Misconfigurations |-> <<[ID |-> "MIS-1", Severity |-> "LOW",
                                             Title |-> "m", Target |-> "Dockerfile"]>>]>>]

ReportWithoutResults == [SchemaVersion |-> 2]

SarifReport == [version |-> "2.1.0"]

\* What a running trivy may leave at --output: nothing for a format it rejects,
\* a table, or a JSON document, whole or cut short.
WritesFor(format) ==
    CASE format = "json"  -> {NotJson, Json(ReportWithFindings), Json(ReportWithoutResults)}
      [] format = "sarif" -> {NotJson, Json(SarifReport)}
      [] format = "table" -> {NotJson}
      [] OTHER            -> {}

\* Path.exists()
Exists(f) == f.kind # "missing"

\* load_report: the parsed document; json.load raises on anything else.
LoadRaises(f) == f.kind # "json"

load_report(f) == f.data

\* "报告文件不存在，无法解析"
MissingReportText == "report file does not exist, cannot parse"

\* Mutant of _summarize: no exists() check before loading.
SummarizeUnchecked(f, path) ==
    IF LoadRaises(f)
    THEN [kind |-> "raised", error |-> "load_report"]
    ELSE LET summary == summarize_report(load_report(f), 5)
         IN  [kind |-> "returned",
              value |-> [summary        |-> summary.summary_text,
                         high           |-> summary.high,
                         critical       |-> summary.critical,
                         top            |-> summary.top,
                         total_findings |-> summary.total_findings,
                         report_path    |-> path]]

\* _summarize(report_path), f being the file at report_path: the dict it
\* returns, or the exception load_report lets through.
_summarize(f, path) ==
    IF ~Exists(f)
    THEN [kind |-> "returned",
          value |-> [summary |-> MissingReportText, report_path |-> path]]
    ELSE IF LoadRaises(f)
    THEN [kind |-> "raised", error |-> "load_report"]
    ELSE LET summary == summarize_report(load_report(f), 5)
         IN  [kind |-> "returned",
              value |-> [summary        |-> summary.summary_text,
                         high           |-> summary.high,
                         critical       |-> summary.critical,
                         top            |-> summary.top,
                         total_findings |-> summary.total_findings,
                         report_path    |-> path]]

\* Lines 167-170 of a tool: summarize, then add exit_code and target.
ToolResult(f, path, code, target) ==
    LET s == _summarize(f, path)
    IN  IF s.kind = "raised" THEN s
        ELSE [kind |-> "returned",
              value |-> s.value @@ ("exit_code" :> code) @@ ("target" :> target)]

(***************************************************************************)
(* _stream_run and the tool call around it.  The call is cut where it      *)
(* blocks: reading a line of the child's output, and waiting for its exit. *)
(***************************************************************************)
NoProc == [state |-> "none"]

\* proc.kill() on a running child.
Killed(p) == [p EXCEPT !.state = "killed", !.stdout_open = FALSE, !.returncode = -9]

\* Ticks since start = time.time() - start.
Elapsed == clock - run.start

\* int(time.time() - start), in seconds.
ElapsedWholeSeconds == Elapsed \div TicksPerSecond

\* Mutant of WaitTimeoutSeconds: the full timeout again.
WaitFullTimeout(timeout) == Max(1, timeout)

\* The timeout of the final proc.wait (line 107), in seconds.
WaitTimeoutSeconds(timeout) == Max(1, timeout - ElapsedWholeSeconds)

\* _stream_run's return value on TimeoutExpired (line 111).
TimedOutCode == -1

\* Mutant of NotFoundCode: the timeout sentinel.
NotFoundAsTimeout == TimedOutCode

\* _stream_run's return value on FileNotFoundError (line 98).
NotFoundCode == -127

\* The tool returns: _stream_run gave code, the report is summarized.
Finish(code, via) ==
    /\ exit_code' = code
    /\ result' = ToolResult(file, report_path, code, args.target)
    /\ run' = [run EXCEPT !.via = via, !.done_at = clock]
    /\ pc' = "done"

Init ==
    /\ document = None /\ sum = None
    /\ pc = "idle"
    /\ args = None /\ cmd = <<>> /\ report_path = None
    /\ exe \in BOOLEAN
    /\ file \in {Missing, NotJson, Json(ReportWithFindings)}
    /\ file0 = file
    /\ proc = NoProc
    /\ clock = 0
    /\ run = [start |-> 0, eof_at |-> 0, deadline |-> 0, done_at |-> 0, via |-> "none"]
    /\ exit_code = None
    /\ result = [kind |-> "none"]

\* A tool is called.  The command is built and _stream_run starts the child;
\* without a trivy executable Popen raises FileNotFoundError and the call
\* runs to its end at once.
Call(kind, severity, ignore_unfixed, format, timeout, output_path) ==
    LET a    == [kind |-> kind, target |-> TargetOf(kind), severity |-> severity,
                 ignore_unfixed |-> ignore_unfixed, format |-> format,
                 timeout |-> timeout, output_path |-> output_path]
        path == _build_output_path(kind, output_path)
    IN  /\ pc = "idle"
        /\ args' = a
        /\ report_path' = path
        /\ cmd' = BuildCmd(a, path)
        /\ IF exe
           THEN /\ proc' = [state |-> "running", stdout_open |-> TRUE,
                            buffered |-> 0, returncode |-> 0]
                /\ run' = [run EXCEPT !.start = clock]
                /\ pc' = "read"
                /\ UNCHANGED <<exit_code, result>>
           ELSE /\ exit_code' = NotFoundCode
                /\ result' = ToolResult(file, path, NotFoundCode, a.target)
                /\ run' = [run EXCEPT !.start = clock, !.via = "not_found",
                                      !.done_at = clock]
                /\ pc' = "done"
                /\ UNCHANGED proc
        /\ UNCHANGED <<sumVars, exe, file, file0, clock>>

\* for line in proc.stdout: one line read and printed, then the elapsed-time
\* check of line 104; a hit kills the child and returns -1.
ReadLine ==
    /\ pc = "read"
    /\ proc.buffered > 0
    /\ IF args.timeout # 0 /\ Elapsed > args.timeout * TicksPerSecond
       THEN /\ proc' = Killed([proc EXCEPT !.buffered = @ - 1])
            /\ Finish(TimedOutCode, "read_timeout")
       ELSE /\ proc' = [proc EXCEPT !.buffered = @ - 1]
            /\ UNCHANGED <<pc, run, exit_code, result>>
    /\ UNCHANGED <<sumVars, args, cmd, report_path, exe, file, file0, clock>>

\* The loop ends at end-of-file; proc.wait(timeout=...) returns at once when
\* the child has exited and blocks otherwise.
ReadEOF ==
    /\ pc = "read"
    /\ proc.buffered = 0
    /\ ~proc.stdout_open
    /\ IF proc.state = "exited"
       THEN /\ exit_code' = proc.returncode
            /\ result' = ToolResult(file, report_path, proc.returncode, args.target)
            /\ run' = [run EXCEPT !.eof_at = clock, !.via = "exited",
                                  !.deadline = clock + WaitTimeoutSeconds(args.timeout)
                                                        * TicksPerSecond,
                                  !.done_at = clock]
            /\ pc' = "done"
       ELSE /\ run' = [run EXCEPT !.eof_at = clock,
                                  !.deadline = clock + WaitTimeoutSeconds(args.timeout)
                                                        * TicksPerSecond]
            /\ pc' = "wait"
            /\ UNCHANGED <<exit_code, result>>
    /\ UNCHANGED <<sumVars, args, cmd, report_path, exe, file, file0, proc, clock>>

\* proc.wait returns: the child exited within the wait's timeout.
WaitExit ==
    /\ pc = "wait"
    /\ proc.state = "exited"
    /\ Finish(proc.returncode, "exited")
    /\ UNCHANGED <<sumVars, args, cmd, report_path, exe, file, file0, proc, clock>>

\* proc.wait raises TimeoutExpired: the child is killed, -1 returned.
WaitTimeout ==
    /\ pc = "wait"
    /\ proc.state = "running"
    /\ clock >= run.deadline
    /\ proc' = Killed(proc)
    /\ Finish(TimedOutCode, "wait_timeout")
    /\ UNCHANGED <<sumVars, args, cmd, report_path, exe, file, file0, clock>>

(***************************************************************************)
(* The child process and the clock.                                        *)
(***************************************************************************)
ChildEmit ==
    /\ proc.state = "running"
    /\ proc.stdout_open
    /\ proc.buffered < MaxBuffered
    /\ proc' = [proc EXCEPT !.buffered = @ + 1]
    /\ UNCHANGED <<sumVars, pc, args, cmd, report_path, exe, file, file0, clock,
                   run, exit_code, result>>

\* The child closes its output and keeps running.
ChildCloseStdout ==
    /\ proc.state = "running"
    /\ proc.stdout_open
    /\ proc' = [proc EXCEPT !.stdout_open = FALSE]
    /\ UNCHANGED <<sumVars, pc, args, cmd, report_path, exe, file, file0, clock,
                   run, exit_code, result>>

ChildWrite(content) ==
    /\ proc.state = "running"
    /\ content \in WritesFor(args.format)
    /\ file # content
    /\ file' = content
    /\ UNCHANGED <<sumVars, pc, args, cmd, report_path, exe, file0, proc, clock,
                   run, exit_code, result>>

ChildExit(code) ==
    /\ proc.state = "running"
    /\ proc' = [proc EXCEPT !.state = "exited", !.stdout_open = FALSE,
                            !.returncode = code]
    /\ UNCHANGED <<sumVars, pc, args, cmd, report_path, exe, file, file0, clock,
                   run, exit_code, result>>

\* Time passes while _stream_run is blocked: in the read of the next line with
\* nothing to read, or in proc.wait before its timeout.
Blocked ==
    \/ pc = "read" /\ proc.buffered = 0 /\ proc.stdout_open
    \/ pc = "wait" /\ proc.state = "running" /\ clock < run.deadline

Tick ==
    /\ Blocked
    /\ clock < MaxClock
    /\ clock' = clock + 1
    /\ UNCHANGED <<sumVars, pc, args, cmd, report_path, exe, file, file0, proc,
                   run, exit_code, result>>

Next ==
    \/ \E kind \in Kinds, severity \in Severities, ignore_unfixed \in BOOLEAN,
          format \in Formats, timeout \in 1..MaxTimeout, output_path \in OutputPaths :
            Call(kind, severity, ignore_unfixed, format, timeout, output_path)
    \/ ReadLine
    \/ ReadEOF
    \/ WaitExit
    \/ WaitTimeout
    \/ ChildEmit
    \/ ChildCloseStdout
    \/ \E content \in {NotJson, Json(ReportWithFindings), Json(ReportWithoutResults),
                       Json(SarifReport)} : ChildWrite(content)
    \/ \E code \in {0, 1} : ChildExit(code)
    \/ Tick

Spec == Init /\ [][Next]_vars

(***************************************************************************)
(* The claims about the scan tools.                                        *)
(***************************************************************************)
Spawned == proc.state # "none"

TimeoutTicks == args.timeout * TicksPerSecond

\* C1: a call with timeout T returns, and never blocks longer than, T plus a
\* slack of one second after the spawn, whatever the child does.
C1_ReturnsWithinTimeout ==
    /\ (pc = "done" /\ Spawned) =>
            run.done_at - run.start <= TimeoutTicks + TicksPerSecond
    /\ pc \in {"read", "wait"} =>
            clock - run.start <= TimeoutTicks + TicksPerSecond

\* C2: no child process is spawned with a format other than json, table, sarif.
C2_ValidFormatBeforeSpawn ==
    Spawned => validate_format(args.format)

\* C3: with a report file that is no well-formed document, the call returns a
\* digest with a summary, the exit code, the target and the report path.
C3_MalformedReportGivesDigest ==
    (pc = "done" /\ file.kind = "text") =>
        /\ result.kind = "returned"
        /\ {"summary", "exit_code", "target", "report_path"} \subseteq DOMAIN result.value

\* C4: with no report file when the runner has returned, whatever it returned,
\* the call returns the "report file does not exist" digest, without counts,
\* carrying the report path, the exit code and the target.
C4_MissingReportDigest ==
    (pc = "done" /\ file.kind = "missing") =>
        /\ result.kind = "returned"
        /\ DOMAIN result.value = {"summary", "report_path", "exit_code", "target"}
        /\ result.value.summary = MissingReportText
        /\ result.value.report_path = report_path
        /\ result.value.exit_code = exit_code
        /\ result.value.target = args.target

\* A timed-out scan that left no report.
C4_Witness ==
    /\ pc = "done"
    /\ file.kind = "missing"
    /\ exit_code = TimedOutCode
    /\ result.kind = "returned"

HasPair(c, flag, v) == \E i \in 1..(Len(c) - 1) : c[i] = flag /\ c[i + 1] = v

Occurs(c, v) == \E i \in 1..Len(c) : c[i] = v

\* C9: the command starts with the subcommand of the target kind, carries
\* --severity, --format and --output with the call's values, the output path
\* being the explicit one when given and the one summarized and returned,
\* --ignore-unfixed exactly when asked for, and the target last, except for
\* sbom, where the target is only the value of --input.
C9_CommandLine ==
    pc # "idle" =>
        /\ cmd[1] = "trivy"
        /\ cmd[2] = args.kind
        /\ Len(cmd) = (IF args.kind = "sbom" THEN 10 ELSE 9)
                            + (IF args.ignore_unfixed THEN 1 ELSE 0)
        /\ HasPair(cmd, "--severity", args.severity)
        /\ HasPair(cmd, "--format", args.format)
        /\ HasPair(cmd, "--output", report_path)
        /\ Truthy(args.output_path) => report_path = args.output_path
        /\ Occurs(cmd, "--ignore-unfixed") <=> args.ignore_unfixed
        /\ args.kind # "sbom" =>
                /\ cmd[Len(cmd)] = args.target
                /\ ~Occurs(cmd, "--input")
        /\ args.kind = "sbom" =>
                /\ HasPair(cmd, "--input", args.target)
                /\ cmd[Len(cmd)] # args.target
                /\ Cardinality({i \in 1..Len(cmd) : cmd[i] = args.target}) = 1
        /\ result.kind = "returned" => result.value.report_path = report_path

\* An sbom scan with --ignore-unfixed and an explicit output path, returned.
C9_Witness ==
    /\ pc = "done"
    /\ args.kind = "sbom"
    /\ args.ignore_unfixed
    /\ args.output_path = "out/scan.json"
    /\ Spawned
    /\ result.kind = "returned"

\* The runner saw end-of-file before the deadline.
EofBeforeDeadline ==
    /\ run.via \in {"exited", "wait_timeout"}
    /\ run.eof_at - run.start < TimeoutTicks

\* C10 as stated: after end-of-file before the deadline the final wait lasts
\* the remaining budget, so a timeout comes at the deadline and a child's exit
\* is taken only up to the deadline.
C10_WaitIsRemainingBudget ==
    (pc = "done" /\ EofBeforeDeadline) =>
        /\ run.via = "wait_timeout" =>
                /\ exit_code = TimedOutCode
                /\ proc.state = "killed"
                /\ run.done_at = run.start + TimeoutTicks
        /\ run.via = "exited" =>
                /\ exit_code = proc.returncode
                /\ proc.state = "exited"
                /\ run.done_at <= run.start + TimeoutTicks

\* The end of the final wait: timeout less the whole seconds elapsed at
\* end-of-file, counted from end-of-file.
WholeSecondsDeadline ==
    run.eof_at
        + (args.timeout - (run.eof_at - run.start) \div TicksPerSecond) * TicksPerSecond

\* C10, amended: after end-of-file before the deadline the final wait lasts
\* the timeout less the whole seconds elapsed, which ends less than a second
\* after the deadline; a child still running then is killed and -1 returned,
\* a child that exits before is answered with its exit code.
C10_WaitIsWholeSecondsLeft ==
    /\ (pc = "wait" /\ run.eof_at - run.start < TimeoutTicks) =>
            clock <= WholeSecondsDeadline
    /\ (pc = "done" /\ EofBeforeDeadline) =>
            /\ WholeSecondsDeadline < run.start + TimeoutTicks + TicksPerSecond
            /\ run.via = "wait_timeout" =>
                    /\ exit_code = TimedOutCode
                    /\ proc.state = "killed"
                    /\ run.done_at = WholeSecondsDeadline
            /\ run.via = "exited" =>
                    /\ exit_code = proc.returncode
                    /\ proc.state = "exited"
                    /\ run.done_at <= WholeSecondsDeadline

\* End-of-file in the middle of a second, and the wait timing out past the
\* deadline.
C10_Witness ==
    /\ pc = "done"
    /\ EofBeforeDeadline
    /\ run.via = "wait_timeout"
    /\ (run.eof_at - run.start) % TicksPerSecond # 0
    /\ run.done_at > run.start + TimeoutTicks
====
